---- MODULE Spec2Model ----
(***************************************************************************)
(* The kernel ELF loader of src/binary/load_kernel.rs as a state machine.  *)
(*                                                                         *)
(* Physical memory is the history of the stores made to it (mem): a read   *)
(* returns what the latest store covering the address wrote, and the       *)
(* initial content where no store did.  The page table is a function from  *)
(* mapped page numbers to [frame, flags].  The frame allocator hands out   *)
(* the frames of a pool that lies behind the ELF image.                    *)
(*                                                                         *)
(* Out of the model: the ELF parser (xmas_elf), whose sanity checks are    *)
(* taken to pass; relocation targets that land on the ELF headers or on    *)
(* the RELA table itself; u64 overflow (all addresses stay far below 2^31).*)
(***************************************************************************)
EXTENDS Integers, Sequences, FiniteSets, TLC

VARIABLES
    kernel_offset,           \* Inner.kernel_offset: address of bytes[0]
    elf_type,                \* elf_file.header.pt2.type_()
    headers,                 \* elf_file.program_iter(): the program headers
    relas,                   \* the Rela<u64> array found at DT_RELA in the image
    virtual_address_offset,  \* Inner.virtual_address_offset
    page_table,              \* Inner.page_table: page |-> [frame, flags]
    mem,                     \* physical memory, as the sequence of stores made
    allocated,               \* number of frames the frame allocator handed out
    tls_template,            \* load_segments' local tls_template
    pc,                      \* position in load_kernel
    idx,                     \* index of the program header the loops are at
    ri,                      \* index of the RELA entry the relocator is at
    entries,                 \* handle_dynamic_segment's local entries
    result                   \* what load_kernel ended with

vars == <<kernel_offset, elf_type, headers, relas, virtual_address_offset,
          page_table, mem, allocated, tls_template, pc, idx, ri, entries, result>>

-----------------------------------------------------------------------------
(* Program constants *)

\* crate::binary::PAGE_SIZE and Size4KiB::SIZE
PAGE_SIZE == 4096

\* virtual_address_offset of a SharedObject (0x400000)
PIE_BASE == 4194304

\* the relocation type handle_dynamic_segment applies (R_X86_64_RELATIVE)
R_X86_64_RELATIVE == 8

\* size_of::<Rela<u64>>(), the stride of the RELA table
RELA_ENTRY_SIZE == 24

(* Bounds of the model *)

\* the most program headers an image has
MaxHeaders == 2

\* the most entries the RELA table has
MaxRelas == 2

\* the frames the frame allocator can hand out before it returns None
NumFreeFrames == 3

-----------------------------------------------------------------------------
(* The ELF images the loader is run on *)

\* length of the byte slice `bytes` (three frames)
ImageLen == 12288

\* file offset of the RELA table (the value of DT_RELA)
RelaTableOffset == 8192

NoTag == <<>>

Header(t, off, va, fs, ms, x, w, dyn) ==
    [type |-> t, offset |-> off, virtual_addr |-> va, file_size |-> fs,
     mem_size |-> ms, is_execute |-> x, is_write |-> w, dyn |-> dyn]

Load(off, va, fs, ms, x, w) == Header("Load", off, va, fs, ms, x, w, NoTag)

Tag(t, v) == [tag |-> t, val |-> v]

\* a PT_DYNAMIC whose dynamic section names the RELA table of n entries
DynFull(n) ==
    Header("Dynamic", 8000, 8000, 48, 48, FALSE, FALSE,
           <<Tag("Rela", RelaTableOffset), Tag("RelaSize", RELA_ENTRY_SIZE * n),
             Tag("RelaEnt", RELA_ENTRY_SIZE)>>)

\* PT_DYNAMIC segments with no, a doubled, or an incomplete RELA description
DynOdd ==
    { Header("Dynamic", 8000, 8000, 48, 48, FALSE, FALSE, d) : d \in
        { <<Tag("Other", 0)>>,
          <<Tag("Rela", RelaTableOffset), Tag("Rela", RelaTableOffset)>>,
          <<Tag("Rela", RelaTableOffset), Tag("RelaEnt", RELA_ENTRY_SIZE)>>,
          <<Tag("Rela", RelaTableOffset), Tag("RelaSize", RELA_ENTRY_SIZE)>>,
          <<Tag("RelaSize", RELA_ENTRY_SIZE)>> } }

\* PT_LOAD segments around the first page boundary of the file, all with
\* offset and virtual_addr congruent modulo PAGE_SIZE
AlignedLoads ==
    { Load(4080, 4080, 8, 8, TRUE, FALSE),      \* inside one page, no bss
      Load(4080, 4080, 8, 12, FALSE, TRUE),     \* split tail, bss ends in the page
      Load(4080, 4080, 8, 16, FALSE, TRUE),     \* split tail, bss ends at a page start
      Load(4080, 4080, 8, 24, TRUE, TRUE),      \* split tail and a trailing page
      Load(4080, 4080, 16, 16, FALSE, FALSE),   \* file content ends at a page start
      Load(4080, 4080, 16, 24, FALSE, TRUE),    \* aligned boundary, a trailing page
      Load(4080, 4080, 16, 4112, FALSE, TRUE),  \* aligned boundary, bss ends at a page start
      Load(4088, 4088, 16, 16, TRUE, FALSE),    \* file content in two frames
      Load(4088, 4088, 16, 20, FALSE, TRUE),    \* two frames, split tail in the second
      Load(4096, 8192, 0, 0, FALSE, FALSE),     \* empty, page-aligned
      Load(4096, 8192, 0, 8, FALSE, TRUE),      \* all bss, page-aligned
      Load(4080, 4080, 0, 8, FALSE, TRUE),      \* all bss, not page-aligned
      Load(4080, 4080, 0, 0, FALSE, FALSE),     \* empty, not page-aligned
      Load(4088, 16376, 8, 8, FALSE, TRUE),     \* follows the 8-byte segments in the file
      Load(4088, 16376, 8, 16, TRUE, TRUE) }    \* the same, with a split tail

\* PT_LOAD segments that break the congruence
MisalignedLoads ==
    { Load(4096, 4088, 16, 16, FALSE, FALSE),
      Load(4096, 4088, 16, 24, FALSE, TRUE),
      Load(4096, 2048, 0, 8, FALSE, TRUE) }

TlsHeaders ==
    { Header("Tls", 4080, 4080, 4, 8, FALSE, FALSE, NoTag),
      Header("Tls", 4088, 16376, 8, 8, FALSE, FALSE, NoTag) }

OtherHeaders == { Header("Note", 64, 64, 16, 16, FALSE, FALSE, NoTag) }

Rela(off, add, ty, sym) == [offset |-> off, addend |-> add, type |-> ty, sym |-> sym]

RelaTemplates ==
    { Rela(4080, 80, R_X86_64_RELATIVE, 0),
      Rela(4088, 66051, R_X86_64_RELATIVE, 0),   \* where an 8-byte segment at 4080 ends
      Rela(4084, 96, R_X86_64_RELATIVE, 0),      \* overlaps the store at 4080
      Rela(4087, 66051, R_X86_64_RELATIVE, 0),   \* starts on the last byte of an 8-byte segment
      Rela(16376, 80, R_X86_64_RELATIVE, 0),
      Rela(4092, 66051, R_X86_64_RELATIVE, 0),   \* across the page boundary
      Rela(36864, 80, R_X86_64_RELATIVE, 0),     \* in no PT_LOAD
      Rela(4080, 80, 7, 0),                      \* R_X86_64_JUMP_SLOT
      Rela(4080, 80, R_X86_64_RELATIVE, 1) }     \* uses the symbol table

RECURSIVE SeqsUpTo(_, _)
\* the sequences over S of length at most n
SeqsUpTo(S, n) ==
    IF n = 0 THEN { <<>> }
    ELSE LET shorter == SeqsUpTo(S, n - 1)
         IN  shorter \cup { Append(s, e) : s \in { t \in shorter : Len(t) = n - 1 }, e \in S }

-----------------------------------------------------------------------------
(* Addresses, pages and frames *)

\* PhysFrame::containing_address / Page::containing_address, as the frame or
\* page number
Containing(addr) == addr \div PAGE_SIZE

\* PhysFrame::start_address / Page::start_address
StartAddress(n) == n * PAGE_SIZE

\* x86_64::align_up(addr, Size4KiB::SIZE)
align_up(addr) == ((addr + PAGE_SIZE - 1) \div PAGE_SIZE) * PAGE_SIZE

\* PhysAddr::is_aligned(PAGE_SIZE)
is_aligned(addr) == addr % PAGE_SIZE = 0

\* the first frame behind the image, where the allocator's pool starts
FirstFreeFrame == Containing(align_up(kernel_offset + ImageLen)) + 1

\* frame_allocator.allocate_frame(): the next frame of the pool, or None
AllocateFrame(n) ==
    IF n < NumFreeFrames THEN [some |-> TRUE, frame |-> FirstFreeFrame + n]
    ELSE [some |-> FALSE, frame |-> 0]

-----------------------------------------------------------------------------
(* Physical memory *)

Store64(addr, value) ==
    [op |-> "store64", addr |-> addr, len |-> 8, value |-> value, src |-> 0]

\* frame_ptr.write(ZERO_ARRAY)
ZeroFrame(frame) ==
    [op |-> "zero", addr |-> StartAddress(frame), len |-> PAGE_SIZE, value |-> 0, src |-> 0]

\* the byte loop copying n bytes from the start of frame `orig` to frame `new`
CopyBytes(new, orig, n) ==
    [op |-> "copy", addr |-> StartAddress(new), len |-> n, value |-> 0,
     src |-> StartAddress(orig)]

RECURSIVE Shr8(_, _)
\* value >> (8 * k)
Shr8(value, k) == IF k = 0 THEN value ELSE Shr8(value \div 256, k - 1)

\* byte k of the little-endian u64 `value`
ByteOf(value, k) == Shr8(value, k) % 256

\* what memory holds before the loader stores anything: the bytes of the
\* file in the image (never zero, and different at neighbouring offsets),
\* and nothing known (-1) elsewhere
InitByte(addr) ==
    IF addr >= kernel_offset /\ addr < kernel_offset + ImageLen
    THEN ((addr - kernel_offset) % 251) + 1
    ELSE -1

RECURSIVE ReadAt(_, _, _)
\* the byte at physical address addr after the first n stores of m
ReadAt(m, n, addr) ==
    IF n = 0 THEN InitByte(addr)
    ELSE LET w == m[n] IN
         IF addr >= w.addr /\ addr < w.addr + w.len
         THEN CASE w.op = "store64" -> ByteOf(w.value, addr - w.addr)
                [] w.op = "zero"    -> 0
                [] w.op = "copy"    -> ReadAt(m, n - 1, w.src + (addr - w.addr))
         ELSE ReadAt(m, n - 1, addr)

\* the byte at physical address addr in memory m
Read(m, addr) == ReadAt(m, Len(m), addr)

-----------------------------------------------------------------------------
(* The page table *)

\* page_table.map_to(page, frame, flags, frame_allocator): fails when the
\* page is mapped already
map_to(pt, page, frame, flags) ==
    IF page \in DOMAIN pt
    THEN [ok |-> FALSE, pt |-> pt]
    ELSE [ok |-> TRUE, pt |-> pt @@ (page :> [frame |-> frame, flags |-> flags])]

\* page_table.unmap(page): fails when the page is not mapped
unmap(pt, page) ==
    IF page \in DOMAIN pt
    THEN [ok |-> TRUE, pt |-> [p \in DOMAIN pt \ {page} |-> pt[p]]]
    ELSE [ok |-> FALSE, pt |-> pt]

-----------------------------------------------------------------------------
(* Outcomes *)

Ok == [kind |-> "Ok", msg |-> ""]

\* a returned Err(&'static str)
Err(msg) == [kind |-> "Err", msg |-> msg]

\* a panic: unwrap() on None, assert_eq!, unimplemented!
Panic(msg) == [kind |-> "Panic", msg |-> msg]

\* the page table, memory and allocator a handler works on, with how far it got
Machine(pt, m, n, status) == [pt |-> pt, mem |-> m, allocated |-> n, status |-> status]

-----------------------------------------------------------------------------
(* handle_load_segment and handle_bss_section *)

\* virt_start_addr
VirtStart(segment) == segment.virtual_addr + virtual_address_offset

\* phys_start_addr
PhysStart(segment) == kernel_offset + segment.offset

\* start_frame of handle_load_segment
StartFrame(segment) == Containing(PhysStart(segment))

\* end_frame of handle_load_segment
EndFrame(segment) == Containing(PhysStart(segment) + segment.file_size - 1)

SegmentFlagsNoWrite(segment) ==
    {"PRESENT"} \cup (IF ~segment.is_execute THEN {"NO_EXECUTE"} ELSE {})

\* segment_flags
SegmentFlags(segment) ==
    {"PRESENT"}
    \cup (IF ~segment.is_execute THEN {"NO_EXECUTE"} ELSE {})
    \cup (IF segment.is_write THEN {"WRITABLE"} ELSE {})

RECURSIVE MapFrames(_, _, _, _)
\* the loop over PhysFrame::range_inclusive(start_frame, end_frame), from frame on
MapFrames(s, segment, frame, flags) ==
    IF frame > EndFrame(segment) THEN s
    ELSE LET offset == frame - StartFrame(segment)
             page   == Containing(VirtStart(segment)) + offset
             r      == map_to(s.pt, page, frame, flags)
         IN  IF ~r.ok THEN [s EXCEPT !.status = Err("map_to failed")]
             ELSE MapFrames([s EXCEPT !.pt = r.pt], segment, frame + 1, flags)

\* zero_start
ZeroStart(segment) == VirtStart(segment) + segment.file_size

\* zero_end
ZeroEnd(segment) == VirtStart(segment) + segment.mem_size

\* data_bytes_before_zero = zero_start & 0xfff
DataBytesBeforeZero(segment) == ZeroStart(segment) % PAGE_SIZE

\* orig_frame
OrigFrame(segment) == Containing(PhysStart(segment) + segment.file_size - 1)

\* last_page
LastPage(segment) == Containing(VirtStart(segment) + segment.file_size - 1)

TailStoresInPlace(new_frame, orig_frame, n) ==
    << [op |-> "zero", addr |-> StartAddress(orig_frame) + n, len |-> PAGE_SIZE - n,
        value |-> 0, src |-> 0] >>

TailStoresShortCopy(new_frame, orig_frame, n) ==
    << ZeroFrame(new_frame), CopyBytes(new_frame, orig_frame, n - 1) >>

TailStoresWholeFrame(new_frame, orig_frame, n) ==
    << ZeroFrame(new_frame), CopyBytes(new_frame, orig_frame, PAGE_SIZE) >>

\* the stores that fill the new frame of a split tail page: zero it, then
\* copy the first n bytes of orig_frame into it
TailStores(new_frame, orig_frame, n) ==
    << ZeroFrame(new_frame), CopyBytes(new_frame, orig_frame, n) >>

\* the branch data_bytes_before_zero != 0 of handle_bss_section
SplitTail(s, segment, flags) ==
    LET a == AllocateFrame(s.allocated) IN
    IF ~a.some THEN [s EXCEPT !.status = Panic("called Option::unwrap() on a None value")]
    ELSE
      LET s1 == [s EXCEPT !.allocated = @ + 1,
                          !.mem = @ \o TailStores(a.frame, OrigFrame(segment),
                                                  DataBytesBeforeZero(segment))]
          u  == unmap(s1.pt, LastPage(segment))
      IN  IF ~u.ok
          THEN [s1 EXCEPT !.status =
                   Err("Failed to unmap last segment page because of bss memory")]
          ELSE LET r == map_to(u.pt, LastPage(segment), a.frame, flags) IN
               IF ~r.ok
               THEN [s1 EXCEPT !.pt = u.pt, !.status =
                        Err("Failed to remap last segment page because of bss memory")]
               ELSE [s1 EXCEPT !.pt = r.pt]

\* start_page of handle_bss_section
BssStartPage(segment) == Containing(align_up(ZeroStart(segment)))

BssEndPageShort(segment) == Containing(ZeroEnd(segment)) - 1

\* end_page of handle_bss_section
BssEndPage(segment) == Containing(ZeroEnd(segment))

RECURSIVE MapBssPages(_, _, _, _)
\* the loop over Page::range_inclusive(start_page, end_page), from page on
MapBssPages(s, segment, page, flags) ==
    IF page > BssEndPage(segment) THEN s
    ELSE LET a == AllocateFrame(s.allocated) IN
         IF ~a.some
         THEN [s EXCEPT !.status = Panic("called Option::unwrap() on a None value")]
         ELSE LET s1 == [s EXCEPT !.allocated = @ + 1,
                                  !.mem = Append(@, ZeroFrame(a.frame))]
                  r  == map_to(s1.pt, page, a.frame, flags)
              IN  IF ~r.ok
                  THEN [s1 EXCEPT !.status = Err("Failed to map new frame for bss memory")]
                  ELSE MapBssPages([s1 EXCEPT !.pt = r.pt], segment, page + 1, flags)

\* Inner::handle_bss_section
handle_bss_section(s, segment, flags) ==
    LET s1 == IF DataBytesBeforeZero(segment) # 0 THEN SplitTail(s, segment, flags) ELSE s
    IN  IF s1.status # Ok THEN s1
        ELSE MapBssPages(s1, segment, BssStartPage(segment), flags)

\* Inner::handle_load_segment
handle_load_segment(s, segment) ==
    LET flags == SegmentFlags(segment)
        s1    == MapFrames(s, segment, StartFrame(segment), flags)
    IN  IF s1.status # Ok THEN s1
        ELSE IF segment.mem_size > segment.file_size
             THEN handle_bss_section(s1, segment, flags)
             ELSE s1

TlsTemplateNoOffset(segment) ==
    [start_addr |-> segment.virtual_addr, mem_size |-> segment.mem_size,
     file_size |-> segment.file_size]

\* Inner::handle_tls_segment
handle_tls_segment(segment) ==
    [start_addr |-> segment.virtual_addr + virtual_address_offset,
     mem_size |-> segment.mem_size, file_size |-> segment.file_size]

-----------------------------------------------------------------------------
(* handle_dynamic_segment and find_offset *)

None == [some |-> FALSE, val |-> 0]

Some(v) == [some |-> TRUE, val |-> v]

RECURSIVE ScanTags(_, _, _)
\* the loop `for rel in data`, from entry i on; t holds rela, rela_size and
\* rela_ent found so far
ScanTags(dyn, i, t) ==
    IF i > Len(dyn) THEN t
    ELSE LET rel == dyn[i] IN
         CASE rel.tag = "Rela" ->
                IF t.rela.some
                THEN [t EXCEPT !.status = Err("Dynamic section contains more than one Rela entry")]
                ELSE ScanTags(dyn, i + 1, [t EXCEPT !.rela = Some(rel.val)])
           [] rel.tag = "RelaSize" ->
                IF t.rela_size.some
                THEN [t EXCEPT !.status = Err("Dynamic section contains more than one RelaSize entry")]
                ELSE ScanTags(dyn, i + 1, [t EXCEPT !.rela_size = Some(rel.val)])
           [] rel.tag = "RelaEnt" ->
                IF t.rela_ent.some
                THEN [t EXCEPT !.status = Err("Dynamic section contains more than one RelaEnt entry")]
                ELSE ScanTags(dyn, i + 1, [t EXCEPT !.rela_ent = Some(rel.val)])
           [] OTHER -> ScanTags(dyn, i + 1, t)

\* handle_dynamic_segment up to the loop over the RELA entries: the outcome
\* (status), whether there is a table to apply (table) and its entries
DynamicTable(segment) ==
    LET t == ScanTags(segment.dyn, 1,
                      [status |-> Ok, rela |-> None, rela_size |-> None, rela_ent |-> None])
        none == [status |-> Ok, table |-> FALSE, entries |-> 0]
    IN  IF t.status # Ok THEN [none EXCEPT !.status = t.status]
        ELSE IF ~t.rela.some
        THEN IF t.rela_size.some \/ t.rela_ent.some
             THEN [none EXCEPT !.status = Panic("assertion failed")]
             ELSE none
        ELSE IF ~t.rela_size.some
        THEN [none EXCEPT !.status = Err("RelaSize entry is missing")]
        ELSE IF ~t.rela_ent.some
        THEN [none EXCEPT !.status = Err("RelaEnt entry is missing")]
        ELSE IF t.rela_ent.val = 0
        THEN [none EXCEPT !.status = Panic("attempt to divide by zero")]
        ELSE [status |-> Ok, table |-> TRUE, entries |-> t.rela_size.val \div t.rela_ent.val]

InFileRangeInclusive(program_header, virt_offset) ==
    /\ program_header.virtual_addr <= virt_offset
    /\ virt_offset - program_header.virtual_addr <= program_header.file_size

\* the two comparisons of find_offset
InFileRange(program_header, virt_offset) ==
    /\ program_header.virtual_addr <= virt_offset
    /\ virt_offset - program_header.virtual_addr < program_header.file_size

RECURSIVE FindOffsetFrom(_, _)
\* the loop of find_offset, from program header i on
FindOffsetFrom(i, virt_offset) ==
    IF i > Len(headers) THEN None
    ELSE LET program_header == headers[i] IN
         IF program_header.type = "Load" /\ InFileRange(program_header, virt_offset)
         THEN Some(program_header.offset + (virt_offset - program_header.virtual_addr))
         ELSE FindOffsetFrom(i + 1, virt_offset)

\* find_offset
find_offset(virt_offset) == FindOffsetFrom(1, virt_offset)

RelocValueNoOffset(rela) == rela.addend

\* value = virtual_address_offset.checked_add(rela.get_addend()).unwrap()
RelocValue(rela) == virtual_address_offset + rela.addend

UnsupportedTypeAsErr == Err("relocation type not supported")

\* unimplemented!("relocation type {:x} not supported", ty)
UnsupportedType == Panic("relocation type not supported")

\* the body of the loop `for rela in relas`: the outcome and the store made
ApplyRelocation(rela) ==
    IF rela.sym # 0
    THEN [status |-> Panic("relocations using the symbol table are not supported"),
          stores |-> <<>>]
    ELSE IF rela.type = R_X86_64_RELATIVE
    THEN LET offset_in_file == find_offset(rela.offset) IN
         IF ~offset_in_file.some
         THEN [status |-> Err("Destination of relocation is not mapped in physical memory"),
               stores |-> <<>>]
         ELSE [status |-> Ok,
               stores |-> << Store64(kernel_offset + offset_in_file.val, RelocValue(rela)) >>]
    ELSE [status |-> UnsupportedType, stores |-> <<>>]

-----------------------------------------------------------------------------
(* load_kernel *)

NoResult == [kind |-> "None", msg |-> ""]

NoTemplate == [start_addr |-> -1, mem_size |-> -1, file_size |-> -1]

EmptyTable == [p \in {} |-> 0]

\* the images with PT_LOAD, PT_TLS and ignored headers in every order, with
\* or without a PT_DYNAMIC that relocates one word
InitLoading ==
    /\ kernel_offset = 1048576
    /\ elf_type \in {"Executable", "SharedObject"}
    /\ relas = << Rela(4080, 80, R_X86_64_RELATIVE, 0) >>
    /\ headers \in SeqsUpTo(AlignedLoads \cup MisalignedLoads \cup TlsHeaders
                            \cup OtherHeaders \cup {DynFull(1)}, MaxHeaders) \ { <<>> }

\* the layouts a relocation is applied to
RelocLayouts(n) ==
    { << DynFull(n), Load(4080, 4080, 8, 8, TRUE, FALSE), Load(4088, 16376, 8, 8, FALSE, TRUE) >>,
      << Load(4080, 4080, 8, 24, TRUE, TRUE), Load(4088, 16376, 8, 8, FALSE, TRUE), DynFull(n) >>,
      << Load(4088, 4088, 16, 20, FALSE, TRUE), DynFull(n) >>,
      << DynFull(n), Load(4080, 4080, 16, 16, FALSE, TRUE), Load(4088, 16376, 8, 8, FALSE, TRUE) >>,
      << DynFull(n), Load(4096, 4088, 16, 16, FALSE, FALSE) >> }

\* the images with every RELA table over a few layouts
InitRelocating ==
    /\ kernel_offset = 1048576
    /\ elf_type \in {"Executable", "SharedObject"}
    /\ relas \in SeqsUpTo(RelaTemplates, MaxRelas)
    /\ headers \in RelocLayouts(Len(relas)) \cup { <<d>> : d \in DynOdd }

\* the images Loader::new turns down
InitRejected ==
    /\ kernel_offset \in {1048576, 1048592}
    /\ elf_type \in {"Executable", "SharedObject", "Relocatable", "Core"}
    /\ relas = <<>>
    /\ headers = << Load(4080, 4080, 8, 8, TRUE, FALSE) >>

Init ==
    /\ InitLoading \/ InitRelocating \/ InitRejected
    /\ virtual_address_offset = 0
    /\ page_table = EmptyTable
    /\ mem = <<>>
    /\ allocated = 0
    /\ tls_template = NoTemplate
    /\ pc = "new"
    /\ idx = 0
    /\ ri = 0
    /\ entries = 0
    /\ result = NoResult

Image == <<kernel_offset, elf_type, headers, relas>>

\* load_kernel ends with outcome r
Finish(r) ==
    /\ pc' = "done"
    /\ result' = r

\* Loader::new, and the sanity checks of load_segments (taken to pass)
New ==
    /\ pc = "new"
    /\ IF ~is_aligned(kernel_offset)
       THEN /\ Finish(Err("Loaded kernel ELF file is not sufficiently aligned"))
            /\ UNCHANGED <<virtual_address_offset, idx>>
       ELSE IF elf_type \notin {"Executable", "SharedObject"}
       THEN /\ Finish(Panic("not implemented"))
            /\ UNCHANGED <<virtual_address_offset, idx>>
       ELSE /\ virtual_address_offset' = (IF elf_type = "Executable" THEN 0 ELSE PIE_BASE)
            /\ pc' = "reloc"
            /\ idx' = 1
            /\ UNCHANGED result
    /\ UNCHANGED <<Image, page_table, mem, allocated, tls_template, ri, entries>>

\* the relocation loop passes a program header that is not PT_DYNAMIC
SkipNonDynamic ==
    /\ pc = "reloc"
    /\ idx <= Len(headers)
    /\ headers[idx].type # "Dynamic"
    /\ idx' = idx + 1
    /\ UNCHANGED <<Image, virtual_address_offset, page_table, mem, allocated,
                   tls_template, pc, ri, entries, result>>

\* handle_dynamic_segment, up to its loop over the RELA entries
HandleDynamicSegment ==
    /\ pc = "reloc"
    /\ idx <= Len(headers)
    /\ headers[idx].type = "Dynamic"
    /\ LET d == DynamicTable(headers[idx]) IN
       IF d.status # Ok
       THEN Finish(d.status) /\ UNCHANGED <<idx, ri, entries>>
       ELSE IF ~d.table
       THEN idx' = idx + 1 /\ UNCHANGED <<pc, ri, entries, result>>
       ELSE /\ pc' = "rela"
            /\ ri' = 1
            /\ entries' = d.entries
            /\ UNCHANGED <<idx, result>>
    /\ UNCHANGED <<Image, virtual_address_offset, page_table, mem, allocated, tls_template>>

\* one iteration of the loop `for rela in relas`
ApplyRela ==
    /\ pc = "rela"
    /\ ri <= entries
    /\ LET r == ApplyRelocation(relas[ri]) IN
       IF r.status # Ok
       THEN Finish(r.status) /\ UNCHANGED <<mem, ri>>
       ELSE /\ mem' = mem \o r.stores
            /\ ri' = ri + 1
            /\ UNCHANGED <<pc, result>>
    /\ UNCHANGED <<Image, virtual_address_offset, page_table, allocated, tls_template,
                   idx, entries>>

\* handle_dynamic_segment returns Ok(())
RelaDone ==
    /\ pc = "rela"
    /\ ri > entries
    /\ pc' = "reloc"
    /\ idx' = idx + 1
    /\ UNCHANGED <<Image, virtual_address_offset, page_table, mem, allocated,
                   tls_template, ri, entries, result>>

\* the relocation loop is through: the loading loop starts
StartLoading ==
    /\ pc = "reloc"
    /\ idx > Len(headers)
    /\ pc' = "load"
    /\ idx' = 1
    /\ tls_template' = NoTemplate
    /\ UNCHANGED <<Image, virtual_address_offset, page_table, mem, allocated,
                   ri, entries, result>>

\* the loading loop at a PT_LOAD: handle_load_segment
LoadSegment ==
    /\ pc = "load"
    /\ idx <= Len(headers)
    /\ headers[idx].type = "Load"
    /\ LET s == handle_load_segment(Machine(page_table, mem, allocated, Ok), headers[idx]) IN
       /\ page_table' = s.pt
       /\ mem' = s.mem
       /\ allocated' = s.allocated
       /\ IF s.status # Ok
          THEN Finish(s.status) /\ UNCHANGED idx
          ELSE idx' = idx + 1 /\ UNCHANGED <<pc, result>>
    /\ UNCHANGED <<Image, virtual_address_offset, tls_template, ri, entries>>

\* the loading loop at a PT_TLS
TlsSegment ==
    /\ pc = "load"
    /\ idx <= Len(headers)
    /\ headers[idx].type = "Tls"
    /\ IF tls_template = NoTemplate
       THEN /\ tls_template' = handle_tls_segment(headers[idx])
            /\ idx' = idx + 1
            /\ UNCHANGED <<pc, result>>
       ELSE /\ Finish(Err("multiple TLS segments not supported"))
            /\ UNCHANGED <<tls_template, idx>>
    /\ UNCHANGED <<Image, virtual_address_offset, page_table, mem, allocated, ri, entries>>

\* the loading loop at any other program header
SkipSegment ==
    /\ pc = "load"
    /\ idx <= Len(headers)
    /\ headers[idx].type \notin {"Load", "Tls"}
    /\ idx' = idx + 1
    /\ UNCHANGED <<Image, virtual_address_offset, page_table, mem, allocated,
                   tls_template, pc, ri, entries, result>>

\* load_segments returns Ok(tls_template) and load_kernel returns Ok
Return ==
    /\ pc = "load"
    /\ idx > Len(headers)
    /\ Finish(Ok)
    /\ UNCHANGED <<Image, virtual_address_offset, page_table, mem, allocated,
                   tls_template, idx, ri, entries>>

Next ==
    \/ New
    \/ SkipNonDynamic
    \/ HandleDynamicSegment
    \/ ApplyRela
    \/ RelaDone
    \/ StartLoading
    \/ LoadSegment
    \/ TlsSegment
    \/ SkipSegment
    \/ Return

Spec == Init /\ [][Next]_vars

-----------------------------------------------------------------------------
(* What the claims speak of *)

Done == pc = "done"

\* load_kernel returned Ok
Success == pc = "done" /\ result = Ok

LoadHeaders == { i \in 1..Len(headers) : headers[i].type = "Load" }

TlsIndexes == { i \in 1..Len(headers) : headers[i].type = "Tls" }

\* the alignment contract: p.offset mod 4096 = p.virtual_addr mod 4096
AlignmentContract ==
    \A i \in LoadHeaders : headers[i].offset % PAGE_SIZE = headers[i].virtual_addr % PAGE_SIZE

\* the byte read at virtual address vaddr through the page table pt from
\* memory m; -2 where no page is mapped
ReadVirt(pt, m, vaddr) ==
    IF Containing(vaddr) \in DOMAIN pt
    THEN Read(m, StartAddress(pt[Containing(vaddr)].frame) + (vaddr % PAGE_SIZE))
    ELSE -2

\* memory as the relocator left it: the relocation stores alone
PostRelocation == SelectSeq(mem, LAMBDA w : w.op = "store64")

\* mem_size > file_size and the file_size boundary is not page-aligned
SplitsTail(p) == p.mem_size > p.file_size /\ ZeroStart(p) % PAGE_SIZE # 0

\* the flags the specification gives the pages of segment p
ExpectedFlags(p) ==
    { f \in {"PRESENT", "NO_EXECUTE", "WRITABLE"} :
        \/ f = "PRESENT"
        \/ f = "NO_EXECUTE" /\ ~p.is_execute
        \/ f = "WRITABLE" /\ p.is_write }

\* this step is the loading loop handling the PT_LOAD headers[idx]
AtLoad == pc = "load" /\ idx <= Len(headers) /\ headers[idx].type = "Load"

\* the pages whose entry this step adds or changes
ChangedPages ==
    { p \in DOMAIN page_table' : p \notin DOMAIN page_table \/ page_table'[p] # page_table[p] }

\* the stores this step makes
NewStores == { mem'[k] : k \in (Len(mem) + 1)..Len(mem') }

Max(a, b) == IF a > b THEN a ELSE b

Min(a, b) == IF a < b THEN a ELSE b

\* the RELA entries the relocator applies in a run that succeeds
AppliedRelas ==
    IF \E i \in 1..Len(headers) :
           headers[i].type = "Dynamic" /\ DynamicTable(headers[i]).table
    THEN 1..Len(relas)
    ELSE {}

\* the PT_LOAD headers whose file range holds virtual address v
Matching(v) ==
    { i \in LoadHeaders : headers[i].virtual_addr <= v
                          /\ v < headers[i].virtual_addr + headers[i].file_size }

\* the first of them, the one find_offset is to match
Matched(v) == CHOOSE i \in Matching(v) : \A j \in Matching(v) : i <= j

\* the file offset of the byte at virtual address v
FileOffset(v) == headers[Matched(v)].offset + (v - headers[Matched(v)].virtual_addr)

\* the word of RELA entry j reads virtual_address_offset + addend through
\* the installed mapping
RelocationLaw(j) ==
    \A k \in 0..7 :
        ReadVirt(page_table, mem, relas[j].offset + virtual_address_offset + k)
            = ByteOf(virtual_address_offset + relas[j].addend, k)

-----------------------------------------------------------------------------
(* The claims *)

\* C1 (Coverage): when load_kernel returns Ok for an image that keeps the
\* alignment contract, every virtual address of every PT_LOAD segment's
\* range [virt_start, virt_start + mem_size) lies in a mapped page.
C1_Coverage ==
    (Success /\ AlignmentContract) =>
        \A i \in LoadHeaders :
            \A a \in VirtStart(headers[i])..(VirtStart(headers[i]) + headers[i].mem_size - 1) :
                Containing(a) \in DOMAIN page_table

\* a successful load of an all-bss segment and of a segment with a split
\* tail page and a trailing bss page
C1_Witness ==
    /\ Success /\ AlignmentContract
    /\ \E i \in LoadHeaders : headers[i].file_size = 0 /\ headers[i].mem_size > 0
    /\ \E i \in LoadHeaders :
          /\ SplitsTail(headers[i])
          /\ Containing(ZeroEnd(headers[i]) - 1) > Containing(ZeroStart(headers[i]))

\* C2 (Data preservation): after a successful load of an image that keeps
\* the alignment contract, byte i < file_size of every PT_LOAD segment reads
\* through the mapping as the byte at file offset p.offset + i of the image
\* as the relocations left it.
C2_DataPreservation ==
    (Success /\ AlignmentContract) =>
        \A i \in LoadHeaders :
            \A k \in 0..(headers[i].file_size - 1) :
                ReadVirt(page_table, mem, VirtStart(headers[i]) + k)
                    = Read(PostRelocation, kernel_offset + headers[i].offset + k)

\* a successful load of a relocated image with a split tail page that holds
\* file content
C2_Witness ==
    /\ Success /\ AlignmentContract
    /\ PostRelocation # <<>>
    /\ \E i \in LoadHeaders :
          /\ SplitsTail(headers[i])
          /\ headers[i].file_size > 0
          /\ page_table[LastPage(headers[i])].frame >= FirstFreeFrame

C4_FlagCorrectness ==
    [][ /\ AtLoad => \A p \in ChangedPages :
                         page_table'[p].flags = ExpectedFlags(headers[idx])
        /\ ~AtLoad => page_table' = page_table ]_vars

\* a file-backed page of an executable read-only segment beside a fresh bss
\* page of a writable one
C4_Witness ==
    /\ Success
    /\ \E p, q \in DOMAIN page_table :
          /\ page_table[p].flags = {"PRESENT"}
          /\ page_table[p].frame < FirstFreeFrame
          /\ page_table[q].flags = {"PRESENT", "NO_EXECUTE", "WRITABLE"}
          /\ page_table[q].frame >= FirstFreeFrame

\* C5 (Relocation law), as claimed: after a successful load (of an image
\* that keeps the alignment contract the loader relies on) the word at the
\* target of every applied R_X86_64_RELATIVE entry reads
\* virtual_address_offset + addend through the mapping.
C5_RelocationLaw_Claimed ==
    (Success /\ AlignmentContract) => \A j \in AppliedRelas : RelocationLaw(j)

\* the eight bytes of entry j's store lie in the file content of the segment
\* matched for its target
StoreInSegment(j) ==
    /\ Matching(relas[j].offset) # {}
    /\ relas[j].offset + 8 <= headers[Matched(relas[j].offset)].virtual_addr
                              + headers[Matched(relas[j].offset)].file_size

\* no other entry's store overlaps the eight bytes of entry j's store
StoreNotOverlapped(j) ==
    \A i \in AppliedRelas :
        \/ i = j
        \/ FileOffset(relas[i].offset) + 8 <= FileOffset(relas[j].offset)
        \/ FileOffset(relas[j].offset) + 8 <= FileOffset(relas[i].offset)
        \/ relas[i] = relas[j]

\* C5 (Relocation law), amended: it holds for the entries whose eight bytes
\* lie in the matched segment's file content and are overlapped by no other
\* entry's store.
C5_RelocationLaw ==
    (Success /\ AlignmentContract) =>
        \A j \in AppliedRelas :
            (StoreInSegment(j) /\ StoreNotOverlapped(j)) => RelocationLaw(j)

\* a position-independent image loaded with a relocated word in a segment
\* whose tail page was split
C5_Witness ==
    /\ Success /\ AlignmentContract
    /\ elf_type = "SharedObject"
    /\ \E j \in AppliedRelas :
          /\ StoreInSegment(j) /\ StoreNotOverlapped(j)
          /\ SplitsTail(headers[Matched(relas[j].offset)])

\* C6 (No-cross-write): handling a segment whose tail page is split changes
\* no byte of the ELF image, and every store it makes lies in a frame the
\* frame allocator handed out during the step.  (A byte outside every new
\* store reads as before, so the bytes of the image inside the new stores
\* are the ones compared.)
C6_NoCrossWrite ==
    [][ (AtLoad /\ SplitsTail(headers[idx])) =>
          \A w \in NewStores :
            /\ \A a \in Max(w.addr, kernel_offset)
                        ..(Min(w.addr + w.len, kernel_offset + ImageLen) - 1) :
                   Read(mem', a) = Read(mem, a)
            /\ Containing(w.addr) \in (FirstFreeFrame + allocated)
                                      ..(FirstFreeFrame + allocated' - 1)
            /\ Containing(w.addr + w.len - 1) = Containing(w.addr) ]_vars

\* a tail page was split whose original frame also holds the file content of
\* another segment
C6_Witness ==
    /\ Success
    /\ \E i, j \in LoadHeaders :
          /\ SplitsTail(headers[i])
          /\ headers[i].file_size > 0
          /\ page_table[LastPage(headers[i])].frame >= FirstFreeFrame
          /\ j # i
          /\ headers[j].file_size > 0
          /\ Containing(kernel_offset + headers[j].offset) = OrigFrame(headers[i])
          /\ headers[j].offset >= headers[i].offset + headers[i].file_size

\* the relocator is at a RELA entry that does not use the symbol table and
\* whose type is not R_X86_64_RELATIVE
AtUnsupportedType ==
    pc = "rela" /\ ri <= entries /\ relas[ri].sym = 0 /\ relas[ri].type # R_X86_64_RELATIVE

\* C7 (Unsupported relocation type), as claimed: load_kernel returns the
\* "relocation type ... not supported" error as its result.
C7_UnsupportedType_Claimed ==
    [][ AtUnsupportedType =>
          (pc' = "done" /\ result' = Err("relocation type not supported")) ]_vars

\* C7, amended: load_kernel returns nothing; it panics (unimplemented!) with
\* the message "relocation type ... not supported".
C7_UnsupportedType ==
    [][ AtUnsupportedType =>
          (pc' = "done" /\ result' = Panic("relocation type not supported")) ]_vars

\* the relocator met an entry of type 7
C7_Witness ==
    /\ Done
    /\ result = Panic("relocation type not supported")
    /\ pc = "done" /\ ri \in 1..Len(relas) /\ relas[ri].type = 7

\* the template of the PT_TLS header i
TemplateOf(i) ==
    [start_addr |-> headers[i].virtual_addr + virtual_address_offset,
     mem_size |-> headers[i].mem_size, file_size |-> headers[i].file_size]

\* the second PT_TLS header
SecondTls == CHOOSE i \in TlsIndexes : Cardinality({ j \in TlsIndexes : j < i }) = 1

\* C8 (TLS uniqueness): with two or more PT_TLS headers load_kernel never
\* returns Ok: it ends with "multiple TLS segments not supported" at the
\* second PT_TLS, unless Loader::new, the relocator or a PT_LOAD before the
\* second PT_TLS failed first; when it returns Ok, the template is that of
\* the one PT_TLS header, or none when there is no PT_TLS.
C8_TlsUniqueness ==
    Done =>
        /\ Cardinality(TlsIndexes) >= 2 =>
              /\ result.kind # "Ok"
              /\ \/ idx = 0
                 \/ idx \in 1..Len(headers) /\ headers[idx].type = "Dynamic"
                 \/ idx \in 1..(SecondTls - 1) /\ headers[idx].type = "Load"
                 \/ idx = SecondTls /\ result = Err("multiple TLS segments not supported")
        /\ (result = Ok /\ Cardinality(TlsIndexes) = 0) => tls_template = NoTemplate
        /\ (result = Ok /\ Cardinality(TlsIndexes) = 1) =>
              \A i \in TlsIndexes : tls_template = TemplateOf(i)

\* a position-independent image with one PT_TLS loaded
C8_Witness ==
    /\ Success
    /\ elf_type = "SharedObject"
    /\ Cardinality(TlsIndexes) = 1
    /\ tls_template # NoTemplate

\* the trailing bss pages the specification names for segment p
TrailingPages(p) ==
    Containing(align_up(ZeroStart(p)))..Containing(VirtStart(p) + p.mem_size - 1)

\* C9 (Trailing BSS page range): the pages for which handling a PT_LOAD
\* segment with mem_size > file_size maps a fresh frame, the split tail page
\* aside, are exactly containing_page(align_up(zero_start)) through
\* containing_page(virt_start + mem_size - 1).
C9_TrailingPages ==
    [][ (AtLoad /\ headers[idx].mem_size > headers[idx].file_size /\ pc' = "load") =>
          { p \in ChangedPages : page_table'[p].frame >= FirstFreeFrame }
              \ (IF SplitsTail(headers[idx]) THEN {LastPage(headers[idx])} ELSE {})
            = TrailingPages(headers[idx]) ]_vars

\* this step is the relocator applying the RELA entry relas[ri]
Applies == pc = "rela" /\ ri <= entries /\ Len(mem') = Len(mem) + 1

\* C10 (Relocation store stays in range), as claimed: all eight bytes of the
\* store lie in the file range of the PT_LOAD segment matched for r_offset.
C10_StoreInRange_Claimed ==
    [][ Applies =>
          /\ Matching(relas[ri].offset) # {}
          /\ LET p == headers[Matched(relas[ri].offset)]
                 w == mem'[Len(mem')]
             IN  /\ w.addr >= kernel_offset + p.offset
                 /\ w.addr + w.len <= kernel_offset + p.offset + p.file_size ]_vars

\* C10, amended: the first byte of the store, at kernel_offset + the file
\* offset of r_offset, lies in the file range of the first PT_LOAD segment
\* that holds r_offset; the other seven bytes may lie behind its end.
C10_StoreInRange ==
    [][ Applies =>
          /\ Matching(relas[ri].offset) # {}
          /\ LET p == headers[Matched(relas[ri].offset)]
                 w == mem'[Len(mem')]
             IN  /\ w.addr = kernel_offset + FileOffset(relas[ri].offset)
                 /\ w.addr >= kernel_offset + p.offset
                 /\ w.addr < kernel_offset + p.offset + p.file_size
                 /\ w.len = 8 ]_vars

\* a relocation was stored on the last byte of a segment's file content
C10_Witness ==
    /\ pc = "rela"
    /\ ri > 1
    /\ Matching(relas[ri - 1].offset) # {}
    /\ relas[ri - 1].offset + 1 = headers[Matched(relas[ri - 1].offset)].virtual_addr
                                  + headers[Matched(relas[ri - 1].offset)].file_size
    /\ Len(mem) >= 1

====
